---------------------------- MODULE Spec2Model ----------------------------
(***************************************************************************)
(* Model of the thingmagic_m5e driver stack:                               *)
(*   circular_buffer.c  the byte ring shared by the receive interrupt and  *)
(*                      the main line;                                     *)
(*   usart.c            the serial line built on the ring;                 *)
(*   rfid_m5.c          the M5e packet protocol (CRC, tx_pkt, rx_pkt,      *)
(*                      send_cmd).                                         *)
(*                                                                         *)
(* The C functions of the ring that run in the main line (cbuffer_pop,     *)
(* cbuffer_popm, bcpy) are transcribed statement by statement as a small   *)
(* step machine over a call frame, so that the same transcription serves   *)
(* the sequential specification (a call runs to completion) and the        *)
(* interrupt specification (cbuffer_push may run between two statements).  *)
(***************************************************************************)
EXTENDS Integers, Sequences, FiniteSets, TLC

VARIABLES
    cb,     \* struct cbuffer_t: buffer, idx, start, len, overflow
    mn,     \* call frame of the main-line ring function in progress or just returned
    obs,    \* observation of the last ring operation (history, not program state)
    acc,    \* bytes for which cbuffer_push returned TRUE, in order (history)
    dlv,    \* bytes handed to the caller by returned pops, in order (history)
    rfid,   \* struct rfid_t: soh, len, opcode, status, crc, error, data
    px,     \* frame of send_cmd / rx_pkt: pc, cmd, timeout, i and the values returned
    wire,   \* bytes the reader module has still to send on the line
    txlog,  \* bytes written to the transmit register, in order
    gh,     \* history of the exchange in progress (not program state)
    us      \* struct usart_t without its buffers: flags, and the receiver on or off

ringVars == <<cb, mn, obs, acc, dlv>>
protoVars == <<rfid, px, wire, txlog, gh>>
vars == <<cb, mn, obs, acc, dlv, rfid, px, wire, txlog, gh, us>>

----------------------------------------------------------------------------
(* Bounds of the model *)

\* capacity of the ring (CBUF_SIZE is a compile-time option of the source)
CBUF_SIZE == 3

\* the ring holds uint8_t bytes; the sequential specification draws them here
RingBytes == {13, 65, 66}

\* largest size argument passed to cbuffer_pop / cbuffer_popm
MaxSize == CBUF_SIZE + 1

\* number of bytes the interrupt delivers in the interrupt specification
MaxPush == CBUF_SIZE + 3

\* polls rx_pkt is given by send_cmd (500 in the source, scaled down here)
RxBudget == 12

\* largest budget of a call of rx_pkt made on its own
MaxOwnBudget == 3

\* end of line characters counted on a line, from 0
MaxEol == 2

\* the budget of rx_pkt in the exchanges of the longest packets; send_cmd
\* gives 500
LongBudget == 268

\* iterations of an rx_pkt of the longest packets that take no byte while
\* bytes are due
MaxIdle == 4

\* iterations of a loop over the data bytes evaluated in one go
LoopRun == 16

\* marks a cell of the caller's data area that no call has written
Untouched == 255 + 1

U8(n) == n % 256

----------------------------------------------------------------------------
(* circular_buffer.c *)

Slots == 0 .. (CBUF_SIZE - 1)

\* cbuffer_init: TOP = CBUF_SIZE - 1
TOP == CBUF_SIZE - 1

cbuffer_clear(c) ==
    [c EXCEPT !.idx = 0, !.start = 0, !.len = 0, !.overflow = FALSE]

\* cbuffer_init: the storage comes from malloc, its content is indeterminate
cbuffer_init(store) ==
    cbuffer_clear([buffer |-> store, idx |-> 0, start |-> 0, len |-> 0,
                   overflow |-> FALSE])

\* A variant of cbuffer_push that stores the byte even when the latch is set.
cbuffer_push_noreject(c, rxc) ==
    LET ovf == IF c.start # 0 THEN c.idx = c.start - 1 ELSE c.idx = TOP
        nidx == IF c.idx = TOP THEN 0 ELSE c.idx + 1
    IN [c |-> [c EXCEPT !.overflow = (c.overflow \/ ovf),
                        !.buffer[c.idx] = rxc,
                        !.idx = nidx,
                        !.len = U8(c.len + 1)],
        ret |-> TRUE]

\* A variant of cbuffer_push that forgets to wrap the write index at TOP.
cbuffer_push_nowrap(c, rxc) ==
    IF c.overflow
    THEN [c |-> c, ret |-> FALSE]
    ELSE LET ovf == IF c.start # 0 THEN c.idx = c.start - 1 ELSE c.idx = TOP
             nidx == IF c.idx = TOP THEN TOP ELSE c.idx + 1
         IN [c |-> [c EXCEPT !.overflow = (c.overflow \/ ovf),
                             !.buffer[c.idx] = rxc,
                             !.idx = nidx,
                             !.len = U8(c.len + 1)],
             ret |-> TRUE]

\* uint8_t cbuffer_push(cbuffer, rxc): the result is the new struct and the
\* value returned.
cbuffer_push(c, rxc) ==
    IF c.overflow
    THEN [c |-> c, ret |-> FALSE]
    ELSE LET ovf == IF c.start # 0 THEN c.idx = c.start - 1 ELSE c.idx = TOP
             nidx == IF c.idx = TOP THEN 0 ELSE c.idx + 1
         IN [c |-> [c EXCEPT !.overflow = (c.overflow \/ ovf),
                             !.buffer[c.idx] = rxc,
                             !.idx = nidx,
                             !.len = U8(c.len + 1)],
             ret |-> TRUE]

(* Call frames.  pc is the next statement; size and eom are the arguments; *)
(* index, j and loop the locals; data is the caller's area (cells 0..size-1*)
(* belong to the call); t holds the value of len read by "len--" until it  *)
(* is written back.                                                        *)
DataArea == [k \in 0 .. (MaxSize - 1) |-> Untouched]

IdleFrame ==
    [pc |-> "ret", fn |-> "none", size |-> 0, eom |-> 0, index |-> 0, j |-> 0,
     loop |-> FALSE, data |-> DataArea, t |-> 0]

\* entry of cbuffer_pop: j = 0
PopFrame(size) ==
    [IdleFrame EXCEPT !.pc = "pop_len", !.fn = "pop", !.size = size]

\* entry of cbuffer_popm: j = 0
PopmFrame(size, eom) ==
    [IdleFrame EXCEPT !.pc = "popm_len", !.fn = "popm", !.size = size, !.eom = eom]

\* where bcpy returns to: both callers continue with their while test
AfterBcpy(m) == IF m.fn = "pop" THEN "pop_while" ELSE "popm_while"

(* bcpy, one statement at a time *)

\* A variant of bcpy that reads the byte at the write index.
bcpy_copy_idx(c, m) ==
    IF m.j < m.size
    THEN [c |-> c, m |-> [m EXCEPT !.data[m.j] = c.buffer[c.idx], !.j = m.j + 1,
                                   !.pc = "bcpy_start"]]
    ELSE [c |-> c, m |-> [m EXCEPT !.pc = "bcpy_start"]]

\* if (j < size) { data[j] = buffer[start]; j++; }
bcpy_copy(c, m) ==
    IF m.j < m.size
    THEN [c |-> c, m |-> [m EXCEPT !.data[m.j] = c.buffer[c.start], !.j = m.j + 1,
                                   !.pc = "bcpy_start"]]
    ELSE [c |-> c, m |-> [m EXCEPT !.pc = "bcpy_start"]]

\* A variant of the advance of start that does not wrap at TOP.
bcpy_start_nowrap(c, m) ==
    [c |-> [c EXCEPT !.start = c.start + 1],
     m |-> [m EXCEPT !.pc = "bcpy_len_rd"]]

\* if (start == TOP) start = 0; else start++;
bcpy_start(c, m) ==
    [c |-> [c EXCEPT !.start = IF c.start = TOP THEN 0 ELSE c.start + 1],
     m |-> [m EXCEPT !.pc = "bcpy_len_rd"]]

\* len--, the load
bcpy_len_rd(c, m) ==
    [c |-> c, m |-> [m EXCEPT !.t = c.len, !.pc = "bcpy_len_wr"]]

\* len--, the store; return (j)
bcpy_len_wr(c, m) ==
    [c |-> [c EXCEPT !.len = U8(m.t + 255)],
     m |-> [m EXCEPT !.pc = AfterBcpy(m)]]

(* cbuffer_pop *)

\* if (cbuffer->len)
pop_len(c, m) ==
    [c |-> c, m |-> [m EXCEPT !.pc = IF c.len # 0 THEN "pop_freeze" ELSE "ret"]]

\* index = cbuffer->idx
pop_freeze(c, m) ==
    [c |-> c, m |-> [m EXCEPT !.index = c.idx, !.pc = "pop_ovf"]]

\* A variant of cbuffer_pop without the copy of the first byte on overflow.
pop_ovf_skip(c, m) ==
    [c |-> c, m |-> [m EXCEPT !.pc = "pop_while"]]

\* if (cbuffer->overflow) j = bcpy(...)
pop_ovf(c, m) ==
    [c |-> c, m |-> [m EXCEPT !.pc = IF c.overflow THEN "bcpy_copy" ELSE "pop_while"]]

\* while ((cbuffer->start != index) && (j < size)) j = bcpy(...)
pop_while(c, m) ==
    [c |-> c,
     m |-> [m EXCEPT !.pc = IF c.start # m.index /\ m.j < m.size
                            THEN "bcpy_copy" ELSE "pop_unlock"]]

\* cbuffer->overflow = FALSE; return (j)
pop_unlock(c, m) ==
    [c |-> [c EXCEPT !.overflow = FALSE], m |-> [m EXCEPT !.pc = "ret"]]

(* cbuffer_popm *)

\* if (cbuffer->len)
popm_len(c, m) ==
    [c |-> c, m |-> [m EXCEPT !.pc = IF c.len # 0 THEN "popm_freeze" ELSE "ret"]]

\* index = cbuffer->idx; loop = TRUE
popm_freeze(c, m) ==
    [c |-> c, m |-> [m EXCEPT !.index = c.idx, !.loop = TRUE, !.pc = "popm_ovf"]]

\* if (cbuffer->overflow) { if (buffer[start] == eom) loop = FALSE; j = bcpy(...) }
popm_ovf(c, m) ==
    IF c.overflow
    THEN [c |-> c,
          m |-> [m EXCEPT !.loop = IF c.buffer[c.start] = m.eom THEN FALSE ELSE m.loop,
                          !.pc = "bcpy_copy"]]
    ELSE [c |-> c, m |-> [m EXCEPT !.pc = "popm_while"]]

\* while (loop && (cbuffer->start != index))
popm_while(c, m) ==
    [c |-> c,
     m |-> [m EXCEPT !.pc = IF m.loop /\ c.start # m.index
                            THEN "popm_eom" ELSE "popm_unlock"]]

\* A variant of cbuffer_popm that stops before copying the EOM byte.
popm_eom_before(c, m) ==
    IF c.buffer[c.start] = m.eom
    THEN [c |-> c, m |-> [m EXCEPT !.loop = FALSE, !.pc = "popm_while"]]
    ELSE [c |-> c, m |-> [m EXCEPT !.pc = "bcpy_copy"]]

\* if (buffer[start] == eom) loop = FALSE; j = bcpy(...)
popm_eom(c, m) ==
    [c |-> c,
     m |-> [m EXCEPT !.loop = IF c.buffer[c.start] = m.eom THEN FALSE ELSE m.loop,
                     !.pc = "bcpy_copy"]]

\* A variant of cbuffer_popm that terminates the data area with a zero byte.
popm_unlock_term(c, m) ==
    [c |-> [c EXCEPT !.overflow = FALSE],
     m |-> IF m.j < m.size
           THEN [m EXCEPT !.data[m.j] = 0, !.pc = "ret"]
           ELSE [m EXCEPT !.pc = "ret"]]

\* cbuffer->overflow = FALSE; return (j)
popm_unlock(c, m) ==
    [c |-> [c EXCEPT !.overflow = FALSE], m |-> [m EXCEPT !.pc = "ret"]]

\* one statement of the main-line ring function in progress
MainStep(c, m) ==
    CASE m.pc = "pop_len"     -> pop_len(c, m)
      [] m.pc = "pop_freeze"  -> pop_freeze(c, m)
      [] m.pc = "pop_ovf"     -> pop_ovf(c, m)
      [] m.pc = "pop_while"   -> pop_while(c, m)
      [] m.pc = "pop_unlock"  -> pop_unlock(c, m)
      [] m.pc = "popm_len"    -> popm_len(c, m)
      [] m.pc = "popm_freeze" -> popm_freeze(c, m)
      [] m.pc = "popm_ovf"    -> popm_ovf(c, m)
      [] m.pc = "popm_while"  -> popm_while(c, m)
      [] m.pc = "popm_eom"    -> popm_eom(c, m)
      [] m.pc = "popm_unlock" -> popm_unlock(c, m)
      [] m.pc = "bcpy_copy"   -> bcpy_copy(c, m)
      [] m.pc = "bcpy_start"  -> bcpy_start(c, m)
      [] m.pc = "bcpy_len_rd" -> bcpy_len_rd(c, m)
      [] m.pc = "bcpy_len_wr" -> bcpy_len_wr(c, m)

\* a call that is not interrupted: its statements until it returns
RECURSIVE RunCall(_, _)
RunCall(c, m) ==
    IF m.pc = "ret" THEN [c |-> c, m |-> m]
    ELSE LET s == MainStep(c, m) IN RunCall(s.c, s.m)

\* uint8_t cbuffer_pop(cbuffer, data, size), not interrupted
cbuffer_pop(c, size) == RunCall(c, PopFrame(size))

\* uint8_t cbuffer_popm(cbuffer, data, size, eom), not interrupted
cbuffer_popm(c, size, eom) == RunCall(c, PopmFrame(size, eom))

----------------------------------------------------------------------------
(* Reading a frame and a ring *)

\* the bytes a returned call wrote to the caller's area, in order
Output(m) == [k \in 1 .. m.j |-> m.data[k - 1]]

\* no cell at or after the returned count was written
RestUntouched(m) == \A k \in 0 .. (MaxSize - 1) : k >= m.j => m.data[k] = Untouched

\* number of unread bytes by the cursors and the latch
Backlog(c) ==
    IF c.overflow THEN CBUF_SIZE ELSE (c.idx - c.start + CBUF_SIZE) % CBUF_SIZE

\* the unread bytes, oldest first
Unread(c) == [k \in 1 .. Backlog(c) |-> c.buffer[(c.start + k - 1) % CBUF_SIZE]]

IsPrefix(s, t) == Len(s) <= Len(t) /\ \A k \in 1 .. Len(s) : s[k] = t[k]

\* positions of the byte e in the sequence s
Positions(s, e) == {k \in 1 .. Len(s) : s[k] = e}

Min(S) == CHOOSE x \in S : \A y \in S : x <= y

----------------------------------------------------------------------------
(* rfid_m5.c *)

\* rx_pkt: the values of rfid->error
END == 0
SOH == 1
LEN == 2
CMD == 3
STATUS == 4
DATA == 5
CRC == 6

U16(n) == n % 65536

\* x with the bit of weight w inverted
FlipBit(x, w) == IF (x \div w) % 2 = 1 THEN x - w ELSE x + w

\* A variant with the polynomial 0x8005: bits 15, 2 and 0 inverted.
XorPoly_8005(x) == FlipBit(FlipBit(FlipBit(x, 32768), 4), 1)

\* crcReg ^ 0x1021: bits 12, 5 and 0 inverted
XorPoly(x) == FlipBit(FlipBit(FlipBit(x, 4096), 32), 1)

\* the for loop of CRC_calcCrc8, from the bit selected by dcdBitMask down
RECURSIVE CrcBits(_, _, _)
CrcBits(crcReg, u8Data, dcdBitMask) ==
    IF dcdBitMask = 0 THEN crcReg
    ELSE LET shifted == U16(crcReg * 2)
             bit == (u8Data \div dcdBitMask) % 2
             ored == shifted + bit
         IN IF crcReg >= 32768
            THEN CrcBits(XorPoly(ored), u8Data, dcdBitMask \div 2)
            ELSE CrcBits(ored, u8Data, dcdBitMask \div 2)

\* void CRC_calcCrc8(crcReg, u8Data): the new value of *crcReg
CRC_calcCrc8(crcReg, u8Data) == CrcBits(crcReg, u8Data, 128)

\* rfid->data is the area malloc'ed for the exchange; the model keeps the
\* cells written so far, cells 0 .. Len - 1
DataAt(f, k) == IF k < Len(f.data) THEN f.data[k + 1] ELSE 0

DataPut(d, k, b) == IF k < Len(d) THEN [d EXCEPT ![k + 1] = b] ELSE Append(d, b)

\* at most n iterations of the for loop of m5_crc over the data bytes
\* (uint8_t i), from index k: the CRC and the index reached
RECURSIVE CrcRun(_, _, _, _)
CrcRun(crc16, f, k, n) ==
    IF crc16 >= 0 /\ n > 0 /\ k < f.len
    THEN CrcRun(CRC_calcCrc8(crc16, DataAt(f, k)), f, U8(k + 1), n - 1)
    ELSE <<crc16, k>>

\* the for loop of m5_crc over the data bytes, from index k, evaluated
\* LoopRun iterations at a time
RECURSIVE CrcData(_, _, _)
CrcData(crc16, f, k) ==
    IF k < f.len
    THEN LET r == CrcRun(crc16, f, k, LoopRun) IN CrcData(r[1], f, r[2])
    ELSE crc16

\* uint16_t m5_crc(include_status)
m5_crc(f, include_status) ==
    LET c1 == CRC_calcCrc8(65535, f.len)
        c2 == CRC_calcCrc8(c1, f.opcode)
        c3 == IF include_status
              THEN CRC_calcCrc8(CRC_calcCrc8(c2, f.status \div 256), f.status % 256)
              ELSE c2
    IN CrcData(c3, f, 0)

\* at most n iterations of the for loop of tx_pkt over the data bytes
\* (uint8_t i), from index i: the bytes sent so far and the index reached
RECURSIVE TxRun(_, _, _, _)
TxRun(f, i, sent, n) ==
    IF Len(sent) >= 0 /\ n > 0 /\ i < f.len
    THEN TxRun(f, U8(i + 1), Append(sent, DataAt(f, i)), n - 1)
    ELSE <<sent, i>>

\* the for loop of tx_pkt, evaluated LoopRun iterations at a time
RECURSIVE TxData(_, _, _)
TxData(f, i, sent) ==
    IF i < f.len
    THEN LET r == TxRun(f, i, sent, LoopRun) IN TxData(f, r[2], r[1])
    ELSE sent

\* void tx_pkt(void): the bytes handed to usart_putchar, in order
tx_pkt(f) ==
    TxData(f, 0, <<f.soh, f.len, f.opcode>>) \o <<f.crc \div 256, f.crc % 256>>

\* uint8_t usart_get(RFID_USART_PORT, s, 1): cbuffer_pop on the line's ring
usart_get(c, size) == cbuffer_pop(c, size)

\* the byte and the count a usart_get of size 1 hands back
Got(g) == g.m.j # 0
GotByte(g) == g.m.data[0]

\* history: a byte obtained from the line during this rx_pkt
Taken(h, g) == IF Got(g) THEN [h EXCEPT !.rcv = Append(h.rcv, GotByte(g))] ELSE h

\* store a byte into the more significant (k = 0) or the less significant
\* (k = 1) half of a uint16_t: (uint8_t *)&word + 1 - k
PutHalf(word, k, b) ==
    IF k = 0 THEN b * 256 + (word % 256) ELSE (word \div 256) * 256 + b

(* The cases of the switch of rx_pkt.  Each takes the ring, the struct, the *)
(* frame and the history and gives their new values.                        *)

\* case SOH
rx_soh(c, f, p, h) ==
    LET g == usart_get(c, 1)
    IN IF Got(g)
       THEN [c |-> g.c,
             f |-> [f EXCEPT !.soh = GotByte(g),
                             !.error = IF GotByte(g) = 255 THEN LEN ELSE f.error],
             p |-> p, h |-> Taken(h, g)]
       ELSE [c |-> g.c, f |-> f, p |-> p, h |-> h]

\* case LEN
rx_len(c, f, p, h) ==
    LET g == usart_get(c, 1)
    IN IF Got(g)
       THEN [c |-> g.c, f |-> [f EXCEPT !.len = GotByte(g), !.error = CMD],
             p |-> p, h |-> Taken(h, g)]
       ELSE [c |-> g.c, f |-> f, p |-> p, h |-> h]

\* case CMD, up to the missing break
rx_cmd(c, f, p, h) ==
    LET g == usart_get(c, 1)
    IN IF Got(g)
       THEN [c |-> g.c, f |-> [f EXCEPT !.opcode = GotByte(g), !.error = STATUS],
             p |-> [p EXCEPT !.i = 0], h |-> Taken(h, g)]
       ELSE [c |-> g.c, f |-> f, p |-> p, h |-> h]

\* case STATUS
rx_status(c, f, p, h) ==
    IF p.i < 2
    THEN LET g == usart_get(c, 1)
         IN IF Got(g)
            THEN [c |-> g.c,
                  f |-> [f EXCEPT !.status = PutHalf(f.status, p.i, GotByte(g))],
                  p |-> [p EXCEPT !.i = U8(p.i + 1)], h |-> Taken(h, g)]
            ELSE [c |-> g.c, f |-> f, p |-> p, h |-> h]
    ELSE [c |-> c, f |-> [f EXCEPT !.error = DATA], p |-> [p EXCEPT !.i = 0], h |-> h]

\* A variant of case DATA that stores one byte more than rfid->len.
rx_data_inclusive(c, f, p, h) ==
    IF p.i <= f.len
    THEN LET g == usart_get(c, 1)
         IN IF Got(g)
            THEN [c |-> g.c,
                  f |-> [f EXCEPT !.data = DataPut(f.data, p.i, GotByte(g))],
                  p |-> [p EXCEPT !.i = U8(p.i + 1)], h |-> Taken(h, g)]
            ELSE [c |-> g.c, f |-> f, p |-> p, h |-> h]
    ELSE [c |-> c, f |-> [f EXCEPT !.error = CRC], p |-> [p EXCEPT !.i = 0], h |-> h]

\* case DATA
rx_data(c, f, p, h) ==
    IF p.i < f.len
    THEN LET g == usart_get(c, 1)
         IN IF Got(g)
            THEN [c |-> g.c,
                  f |-> [f EXCEPT !.data = DataPut(f.data, p.i, GotByte(g))],
                  p |-> [p EXCEPT !.i = U8(p.i + 1)], h |-> Taken(h, g)]
            ELSE [c |-> g.c, f |-> f, p |-> p, h |-> h]
    ELSE [c |-> c, f |-> [f EXCEPT !.error = CRC], p |-> [p EXCEPT !.i = 0], h |-> h]

\* A variant of case CRC that accepts the packet when the less significant
\* bytes of the two CRCs agree.
rx_crc_low(c, f, p, h) ==
    IF p.i < 2
    THEN LET g == usart_get(c, 1)
         IN IF Got(g)
            THEN [c |-> g.c,
                  f |-> [f EXCEPT !.crc = PutHalf(f.crc, p.i, GotByte(g))],
                  p |-> [p EXCEPT !.i = U8(p.i + 1)],
                  h |-> [Taken(h, g) EXCEPT !.crcn = h.crcn + 1]]
            ELSE [c |-> g.c, f |-> f, p |-> p, h |-> h]
    ELSE [c |-> c,
          f |-> [f EXCEPT !.error = IF m5_crc(f, TRUE) % 256 = f.crc % 256
                                    THEN END ELSE f.error],
          p |-> [p EXCEPT !.timeout = 1], h |-> h]

\* case CRC; h.crcn counts the bytes stored into rfid->crc
rx_crc(c, f, p, h) ==
    IF p.i < 2
    THEN LET g == usart_get(c, 1)
         IN IF Got(g)
            THEN [c |-> g.c,
                  f |-> [f EXCEPT !.crc = PutHalf(f.crc, p.i, GotByte(g))],
                  p |-> [p EXCEPT !.i = U8(p.i + 1)],
                  h |-> [Taken(h, g) EXCEPT !.crcn = h.crcn + 1]]
            ELSE [c |-> g.c, f |-> f, p |-> p, h |-> h]
    ELSE [c |-> c,
          f |-> [f EXCEPT !.error = IF m5_crc(f, TRUE) = f.crc THEN END ELSE f.error],
          p |-> [p EXCEPT !.timeout = 1], h |-> h]

\* case END, default
rx_end(c, f, p, h) ==
    [c |-> c, f |-> f, p |-> [p EXCEPT !.timeout = 1], h |-> h]

\* the switch of rx_pkt up to the first break (case CMD has none)
rx_switch(c, f, p, h) ==
    CASE f.error = SOH    -> rx_soh(c, f, p, h)
      [] f.error = LEN    -> rx_len(c, f, p, h)
      [] f.error = CMD    -> rx_cmd(c, f, p, h)
      [] f.error = STATUS -> rx_status(c, f, p, h)
      [] f.error = DATA   -> rx_data(c, f, p, h)
      [] f.error = CRC    -> rx_crc(c, f, p, h)
      [] OTHER            -> rx_end(c, f, p, h)

\* A variant of the end of the loop body that charges the budget only for
\* the polls that obtained nothing.
rx_tick_idle(p, h) ==
    [p |-> [p EXCEPT !.timeout = IF Len(h.rcv) > h.mark /\ p.timeout > 1
                                 THEN p.timeout ELSE U16(p.timeout + 65535),
                     !.pc = "rx_loop"],
     h |-> [h EXCEPT !.iters = h.iters + 1]]

\* timeout--, the end of the loop body; h.iters counts the iterations, h.mark
\* is the number of bytes obtained before this iteration
rx_tick(p, h) ==
    [p |-> [p EXCEPT !.timeout = U16(p.timeout + 65535), !.pc = "rx_loop"],
     h |-> [h EXCEPT !.iters = h.iters + 1]]

\* entry of rx_pkt(timeout): i = 0; rfid->error = SOH
rx_enter(f, p, timeout) ==
    [f |-> [f EXCEPT !.error = SOH],
     p |-> [p EXCEPT !.i = 0, !.timeout = timeout, !.pc = "rx_loop"]]

\* A variant of the start of send_cmd that includes the status word in the
\* CRC of the command.
send_cmd_prepare_status(f, p) ==
    LET f1 == [f EXCEPT !.soh = 255]
    IN [f |-> [f1 EXCEPT !.crc = m5_crc(f1, TRUE)],
        p |-> [p EXCEPT !.cmd = f.opcode]]

\* send_cmd up to tx_pkt(): cmd = rfid->opcode; soh = 0xff; crc = m5_crc(FALSE)
send_cmd_prepare(f, p) ==
    LET f1 == [f EXCEPT !.soh = 255]
    IN [f |-> [f1 EXCEPT !.crc = m5_crc(f1, FALSE)],
        p |-> [p EXCEPT !.cmd = f.opcode]]

\* A variant of the test of send_cmd that does not compare the opcode.
send_cmd_result_noecho(f, p) ==
    IF f.error = 0 /\ f.status = 0 THEN 1 ELSE 0

\* send_cmd after rx_pkt: the value returned
send_cmd_result(f, p) ==
    IF f.error = 0 /\ f.opcode = p.cmd /\ f.status = 0 THEN 1 ELSE 0

\* struct rfid_t as rfid_init leaves it (malloc, fields not set) with the
\* data area of the exchange allocated and not yet written
rfid_init(status, opcode) ==
    [soh |-> 0, len |-> 0, opcode |-> opcode, status |-> status, crc |-> 0,
     error |-> 0, data |-> <<>>]

NoFrame == [len |-> 0, opcode |-> 0, status |-> 0, data |-> <<>>, kind |-> "none"]

\* step: the send_cmd of rfid_resume that is running (1 .. 5)
PxIdle == [pc |-> "idle", via |-> "none", cmd |-> 0, timeout |-> 0, i |-> 0,
           ret |-> 0, rxret |-> 0, step |-> 0]

GhIdle == [budget |-> 0, iters |-> 0, mark |-> 0, rcv |-> <<>>, crcn |-> 0, txn |-> 0,
           rxn |-> 0, sentop |-> 0, resp |-> NoFrame, dropped |-> FALSE, left |-> 0]

----------------------------------------------------------------------------
(* usart.c *)

\* -D USARTn_EOL=0xd, the end of line character of a port
USART_EOL == 13

\* uint8_t eol:6, the width of the counter of end of line characters
EolBits == 6

\* struct usart_t: flags.eol, the two other bits of flags.all (b0 + 2 * b1),
\* and on: the receiver and its interrupt enabled in UCSRnB
UsFlags(eol, b, on) == [eol |-> eol, b |-> b, on |-> on]

\* the port started, no end of line counted
UsRunning == UsFlags(0, 0, TRUE)

\* A variant of usart_resume that leaves the ring as it is.
usart_resume_keep(u, c) == [u |-> UsFlags(0, 0, TRUE), c |-> c]

\* void usart_resume(port): cbuffer_clear, flags.all = 0, receiver enabled
usart_resume(u, c) == [u |-> UsFlags(0, 0, TRUE), c |-> cbuffer_clear(c)]

\* void usart_suspend(port): UCSRnB = 0 and the receive register read once
usart_suspend(u, c) == [u |-> [u EXCEPT !.on = FALSE], c |-> c]

\* void usart_clear_rx_buffer(port): flags.eol = 0, cbuffer_clear
usart_clear_rx_buffer(u, c) == [u |-> [u EXCEPT !.eol = 0], c |-> cbuffer_clear(c)]

\* uint8_t usart_getmsg(port, s, size): cbuffer_popm up to USARTn_EOL, then
\* if (ok && flags.eol) flags.eol--
usart_getmsg(u, c, size) ==
    LET r == cbuffer_popm(c, size, USART_EOL)
    IN [u |-> IF r.m.j # 0 /\ u.eol # 0 THEN [u EXCEPT !.eol = u.eol - 1] ELSE u,
        c |-> r.c, m |-> r.m]

\* ISR(USARTn_RX_vect): if (rxc == USARTn_EOL) flags.eol++, in a field of
\* EolBits bits; then cbuffer_push
usart_isr(u, c, rxc) ==
    LET r == cbuffer_push(c, rxc)
    IN [u |-> IF rxc = USART_EOL THEN [u EXCEPT !.eol = (u.eol + 1) % (2 ^ EolBits)]
              ELSE u,
        c |-> r.c, ret |-> r.ret]

\* the protocol layer at rest (the ring specifications do not use it)
ProtoIdle ==
    /\ rfid = rfid_init(0, 0)
    /\ px = PxIdle
    /\ wire = <<>>
    /\ txlog = <<>>
    /\ gh = GhIdle

----------------------------------------------------------------------------
(* Sequential use of the ring: every call runs to completion. *)

NoObs == [op |-> "init", ret |-> 0, pre |-> cbuffer_init([s \in Slots |-> 0]),
          run |-> <<>>, phase |-> "pushing"]

\* content of storage that was never written
Garbage == {0, 255}

RingInit ==
    /\ \E store \in [Slots -> RingBytes] : cb = cbuffer_init(store)
    /\ mn = IdleFrame
    /\ obs = [NoObs EXCEPT !.pre = cb]
    /\ acc = <<>>
    /\ dlv = <<>>
    /\ ProtoIdle
    /\ us = UsRunning

\* obs.run is the sequence of bytes offered to push since the last clear, as
\* long as nothing but pushes happened (phase "pushing"); the first pop after
\* such a run is phase "drained"; everything else is "off".
RingClear ==
    /\ cb' = cbuffer_clear(cb)
    /\ mn' = IdleFrame
    /\ obs' = [op |-> "clear", ret |-> 0, pre |-> cb, run |-> <<>>,
               phase |-> "pushing"]
    /\ UNCHANGED <<acc, dlv, rfid, px, wire, txlog, gh, us>>

RingPush ==
    \E b \in RingBytes :
        LET r == cbuffer_push(cb, b)
            on == obs.phase = "pushing" /\ Len(obs.run) <= CBUF_SIZE
        IN /\ cb' = r.c
           /\ mn' = IdleFrame
           /\ obs' = [op |-> "push", ret |-> IF r.ret THEN 1 ELSE 0, pre |-> cb,
                      run |-> IF on THEN Append(obs.run, b) ELSE <<>>,
                      phase |-> IF on THEN "pushing" ELSE "off"]
           /\ UNCHANGED <<acc, dlv, rfid, px, wire, txlog, gh, us>>

RingPop ==
    \E size \in 0 .. MaxSize :
        LET r == cbuffer_pop(cb, size)
        IN /\ cb' = r.c
           /\ mn' = r.m
           /\ obs' = [op |-> "pop", ret |-> r.m.j, pre |-> cb,
                      run |-> IF obs.phase = "pushing" THEN obs.run ELSE <<>>,
                      phase |-> IF obs.phase = "pushing" THEN "drained" ELSE "off"]
           /\ UNCHANGED <<acc, dlv, rfid, px, wire, txlog, gh, us>>

RingPopm ==
    \E size \in 0 .. MaxSize, eom \in RingBytes :
        LET r == cbuffer_popm(cb, size, eom)
        IN /\ cb' = r.c
           /\ mn' = r.m
           /\ obs' = [op |-> "popm", ret |-> r.m.j, pre |-> cb, run |-> <<>>,
                      phase |-> "off"]
           /\ UNCHANGED <<acc, dlv, rfid, px, wire, txlog, gh, us>>

RingNext == RingClear \/ RingPush \/ RingPop \/ RingPopm

SpecRing == RingInit /\ [][RingNext]_vars

----------------------------------------------------------------------------
(* Claims on the sequential ring *)

Smaller(a, b) == IF a < b THEN a ELSE b

\* C1: from a cleared ring, n <= CBUF_SIZE pushes with no pop in between all
\* return TRUE, and a following pop with size >= n returns n, writes exactly
\* the pushed bytes in push order and leaves the ring empty (len 0, latch
\* clear).
C1_PushThenDrain ==
    /\ (obs.op = "push" /\ obs.phase = "pushing" /\ Len(obs.run) <= CBUF_SIZE)
           => obs.ret = 1
    /\ (obs.op = "pop" /\ obs.phase = "drained" /\ Len(obs.run) <= CBUF_SIZE
            /\ mn.size >= Len(obs.run))
           => /\ mn.j = Len(obs.run)
              /\ Output(mn) = obs.run
              /\ RestUntouched(mn)
              /\ cb.len = 0
              /\ ~cb.overflow

\* a pop has just drained a run of CBUF_SIZE pushes
C1_Witness ==
    /\ obs.op = "pop" /\ obs.phase = "drained"
    /\ Len(obs.run) = CBUF_SIZE /\ mn.size >= CBUF_SIZE
    /\ mn.j = CBUF_SIZE

\* C2: from a cleared ring, of CBUF_SIZE + 1 pushes in a row the first
\* CBUF_SIZE return TRUE, the CBUF_SIZE-th sets the latch, the last returns
\* FALSE and changes nothing in the ring; a following pop with size >=
\* CBUF_SIZE returns exactly the first CBUF_SIZE bytes pushed, in order.
C2_PushBeyondCapacity ==
    /\ (obs.op = "push" /\ obs.phase = "pushing" /\ Len(obs.run) <= CBUF_SIZE)
           => /\ obs.ret = 1
              /\ cb.overflow <=> (Len(obs.run) = CBUF_SIZE)
    /\ (obs.op = "push" /\ obs.phase = "pushing" /\ Len(obs.run) = CBUF_SIZE + 1)
           => /\ obs.ret = 0
              /\ cb = obs.pre
    /\ (obs.op = "pop" /\ obs.phase = "drained" /\ Len(obs.run) = CBUF_SIZE + 1
            /\ mn.size >= CBUF_SIZE)
           => /\ mn.j = CBUF_SIZE
              /\ Output(mn) = SubSeq(obs.run, 1, CBUF_SIZE)
              /\ RestUntouched(mn)

\* a pop with room for CBUF_SIZE + 1 bytes follows CBUF_SIZE + 1 pushes, the
\* last of which offered a byte the ring does not hold
C2_Witness ==
    /\ obs.op = "pop" /\ obs.phase = "drained"
    /\ Len(obs.run) = CBUF_SIZE + 1 /\ mn.size = CBUF_SIZE + 1
    /\ obs.run[CBUF_SIZE + 1] # obs.run[1]
    /\ obs.pre.overflow

\* C4: when the ring is completely full (CBUF_SIZE unread bytes, latch
\* set), the next pop or popm with size >= 1 returns at least one byte, the
\* oldest unread byte first.
C4_FullRingDrains ==
    (obs.op \in {"pop", "popm"} /\ obs.pre.overflow /\ obs.pre.len = CBUF_SIZE
        /\ mn.size >= 1)
       => /\ mn.j >= 1
          /\ obs.ret >= 1
          /\ mn.data[0] = obs.pre.buffer[obs.pre.start]

\* a popm has just read from a full ring whose cursors are not at slot 0
C4_Witness ==
    /\ obs.op = "popm" /\ obs.pre.overflow /\ obs.pre.len = CBUF_SIZE
    /\ obs.pre.start # 0 /\ mn.size >= 1 /\ mn.j >= 1

\* C5: when the first byte equal to eom is at position k (0-based) of the
\* unread bytes and size >= k + 1, popm returns k + 1, its output is the
\* first k + 1 unread bytes, and the other unread bytes stay in the ring, in
\* order, for the next read.
C5_PopmStopsAtEom ==
    LET before == Unread(obs.pre)
        at == Positions(before, mn.eom)
    IN (obs.op = "popm" /\ at # {} /\ mn.size >= Min(at))
          => LET n == Min(at)
                 rest == SubSeq(before, n + 1, Len(before))
             IN /\ mn.j = n
                /\ Output(mn) = SubSeq(before, 1, n)
                /\ Output(mn)[n] = mn.eom
                /\ Unread(cb) = rest
                /\ Output(cbuffer_pop(cb, MaxSize).m) = rest

\* a popm on a full ring stopped at an eom that is not the last unread byte
C5_Witness ==
    /\ obs.op = "popm" /\ obs.pre.overflow
    /\ Positions(Unread(obs.pre), mn.eom) # {}
    /\ mn.size >= Min(Positions(Unread(obs.pre), mn.eom))
    /\ mn.j < CBUF_SIZE
    /\ Unread(cb) # <<>>

\* C6: when no unread byte equals eom, popm returns the smaller of the
\* number of unread bytes and size, its output is that many of the oldest
\* unread bytes in order, and nothing is written after them.
C6_PopmWithoutEom ==
    LET before == Unread(obs.pre)
    IN (obs.op = "popm" /\ Positions(before, mn.eom) = {})
          => /\ mn.j = Smaller(Len(before), mn.size)
             /\ Output(mn) = SubSeq(before, 1, mn.j)
             /\ RestUntouched(mn)

\* a popm without eom in the ring returned fewer bytes than its area holds
C6_Witness ==
    /\ obs.op = "popm" /\ Positions(Unread(obs.pre), mn.eom) = {}
    /\ Len(Unread(obs.pre)) >= 2
    /\ mn.j = Len(Unread(obs.pre)) /\ mn.j < mn.size

----------------------------------------------------------------------------
(* The ring under the receive interrupt.  The main line calls cbuffer_pop   *)
(* (usart_get) and executes it one statement at a time; ISR(USARTn_RX_vect) *)
(* runs cbuffer_push to completion between any two statements.  The bytes   *)
(* on the line are numbered 1, 2, ... so that each is recognised.           *)

IsrInit ==
    /\ \E store \in [Slots -> Garbage] : cb = cbuffer_init(store)
    /\ mn = IdleFrame
    /\ obs = [NoObs EXCEPT !.pre = cb]
    /\ acc = <<>>
    /\ dlv = <<>>
    /\ ProtoIdle
    /\ us = UsRunning

\* ISR(USARTn_RX_vect): rxc = UDRn; cbuffer_push(usartn->rx, rxc)
\* obs.ret counts the bytes received so far.
IsrRx ==
    /\ obs.ret < MaxPush
    /\ LET rxc == obs.ret + 1
           r == cbuffer_push(cb, rxc)
       IN /\ cb' = r.c
          /\ acc' = IF r.ret THEN Append(acc, rxc) ELSE acc
          /\ obs' = [obs EXCEPT !.op = "push", !.ret = rxc]
    /\ UNCHANGED <<mn, dlv, rfid, px, wire, txlog, gh, us>>

\* usart_get(port, s, size): ok = cbuffer_pop(usartn->rx, s, size), the call
MainCallPop ==
    /\ mn.pc = "ret"
    /\ \E size \in 1 .. MaxSize : mn' = PopFrame(size)
    /\ UNCHANGED <<cb, obs, acc, dlv, rfid, px, wire, txlog, gh, us>>

\* the next statement of the call in progress; on return the caller owns the
\* bytes written to its area
MainStmt ==
    /\ mn.pc # "ret"
    /\ LET s == MainStep(cb, mn)
       IN /\ cb' = s.c
          /\ mn' = s.m
          /\ dlv' = IF s.m.pc = "ret" THEN dlv \o Output(s.m) ELSE dlv
    /\ UNCHANGED <<obs, acc, rfid, px, wire, txlog, gh, us>>

IsrNext == IsrRx \/ MainCallPop \/ MainStmt

SpecIsr == IsrInit /\ [][IsrNext]_vars

\* C3: whatever statements of cbuffer_pop the interrupt runs between, the
\* bytes returned by the successive pops are a prefix of the bytes for which
\* cbuffer_push returned TRUE (nothing lost, duplicated, overwritten before
\* being read, or out of order).
C3_PopsArePrefixOfAccepted == IsPrefix(dlv, acc)

----------------------------------------------------------------------------
(* One exchange with the reader module.  The main line runs send_cmd (or    *)
(* rx_pkt alone) and the module's answer arrives byte by byte through       *)
(* ISR(USART1_RX_vect), which may run between two iterations of rx_pkt and  *)
(* between the two usart_get of the iteration of case CMD.  Each usart_get  *)
(* runs to completion here; SpecIsr covers the interrupt inside it.         *)

\* the commands of rfid_resume (boot firmware) and rfid_read (read tag)
Commands ==
    {[len |-> 0, opcode |-> 4, data |-> <<>>],
     [len |-> 2, opcode |-> 33, data |-> <<3, 232>>]}

\* the fields of the answers the module may give
Answers ==
    [len : {0}, opcode : {4, 33}, status : {0, 257}, data : {<<>>}, kind : {"good"}]
    \cup [len : {1}, opcode : {4, 33}, status : {0, 257}, data : {<<255>>},
          kind : {"good"}]

\* inbound packet: Hdr(1) + datalen(1) + Cmd(1) + Status(2) + data(N) + CRC(Hi + Lo),
\* the CRC being the one m5_crc computes over these fields
Encode(r, crc) ==
    <<255, r.len, r.opcode, r.status \div 256, r.status % 256>> \o r.data
        \o <<crc \div 256, crc % 256>>

AnswerCrc(r) ==
    m5_crc([len |-> r.len, opcode |-> r.opcode, status |-> r.status, data |-> r.data],
           TRUE)

\* what the line carries: every answer intact, and the answers to the boot
\* command with status 0 also damaged, missing, or replaced by a stream of
\* bytes that are no header and that outlasts the budget
Kinds == {"good", "crc_lo", "crc_hi", "noise", "short", "flood", "none"}

Lines ==
    {x \in Answers \X Kinds :
        x[2] = "good" \/ (x[1].opcode = 4 /\ x[1].status = 0)}

Wire(r, kind) ==
    CASE kind = "good"   -> Encode(r, AnswerCrc(r))
      [] kind = "crc_lo" -> Encode(r, U16(AnswerCrc(r) + 1))
      [] kind = "crc_hi" -> Encode(r, U16(AnswerCrc(r) + 256))
      [] kind = "noise"  -> <<0>> \o Encode(r, AnswerCrc(r))
      [] kind = "short"  -> SubSeq(Encode(r, AnswerCrc(r)), 1, 4)
      [] kind = "flood"  -> [n \in 1 .. RxBudget + 1 |-> 0]
      [] OTHER           -> <<>>

\* budgets of a direct call of rx_pkt
Budgets == 0 .. MaxOwnBudget

ProtoInit ==
    /\ cb = cbuffer_init([s \in Slots |-> 0])
    /\ mn = IdleFrame
    /\ obs = [NoObs EXCEPT !.pre = cb]
    /\ acc = <<>>
    /\ dlv = <<>>
    /\ \E st \in {0, 257} : rfid = rfid_init(st, 0)
    /\ px = PxIdle
    /\ wire = <<>>
    /\ txlog = <<>>
    /\ gh = GhIdle
    /\ us = UsRunning

\* the caller sets len, opcode and data, then send_cmd(): prepare, tx_pkt(),
\* rx_pkt(500) entered
SendCmd ==
    /\ px.pc = "idle"
    /\ \E cmd \in Commands, x \in Lines :
          LET r == x[1]
              kind == x[2]
              f0 == [rfid EXCEPT !.len = cmd.len, !.opcode = cmd.opcode,
                                 !.data = cmd.data]
              s == send_cmd_prepare(f0, px)
              e == rx_enter(s.f, s.p, RxBudget)
          IN /\ rfid' = e.f
             /\ px' = [e.p EXCEPT !.via = "send_cmd"]
             /\ txlog' = txlog \o tx_pkt(s.f)
             /\ wire' = Wire(r, kind)
             /\ gh' = [GhIdle EXCEPT !.budget = RxBudget, !.txn = gh.txn + 1,
                                     !.rxn = gh.rxn + 1, !.sentop = cmd.opcode,
                                     !.resp = [r EXCEPT !.kind = kind]]
    /\ UNCHANGED <<ringVars, us>>

\* rx_pkt(timeout) called on its own
RxCall ==
    /\ px.pc = "idle"
    /\ \E timeout \in Budgets, x \in Lines :
          LET r == x[1]
              kind == x[2]
              e == rx_enter(rfid, px, timeout)
          IN /\ rfid' = e.f
             /\ px' = [e.p EXCEPT !.via = "rx_pkt"]
             /\ wire' = Wire(r, kind)
             /\ gh' = [GhIdle EXCEPT !.budget = timeout, !.rxn = gh.rxn + 1,
                                     !.resp = [r EXCEPT !.kind = kind]]
    /\ UNCHANGED <<txlog, ringVars, us>>

\* ISR(USART1_RX_vect): the next byte of the answer goes to the ring
\* gh.left is the budget left when the last byte of the answer arrived
ProtoIsr ==
    /\ px.pc \in {"rx_loop", "rx_ft"}
    /\ wire # <<>>
    /\ LET r == cbuffer_push(cb, Head(wire))
       IN /\ cb' = r.c
          /\ gh' = [gh EXCEPT !.dropped = gh.dropped \/ ~r.ret,
                              !.left = IF Tail(wire) = <<>> THEN px.timeout ELSE 0]
    /\ wire' = Tail(wire)
    /\ UNCHANGED <<mn, obs, acc, dlv, rfid, px, txlog, us>>

\* while (timeout) { _delay_ms(10); switch ... ; timeout--; }, one iteration;
\* in case CMD, up to the end of that case
RxPoll ==
    /\ px.pc = "rx_loop"
    /\ px.timeout # 0
    /\ LET s == rx_switch(cb, rfid, px, [gh EXCEPT !.mark = Len(gh.rcv)])
           t == rx_tick(s.p, s.h)
       IN /\ cb' = s.c
          /\ rfid' = s.f
          /\ IF rfid.error = CMD
             THEN px' = [s.p EXCEPT !.pc = "rx_ft"] /\ gh' = s.h
             ELSE px' = t.p /\ gh' = t.h
    /\ UNCHANGED <<mn, obs, acc, dlv, wire, txlog, us>>

\* case CMD has no break: the iteration goes on with case STATUS
RxFallthrough ==
    /\ px.pc = "rx_ft"
    /\ LET s == rx_status(cb, rfid, px, gh)
           t == rx_tick(s.p, s.h)
       IN /\ cb' = s.c
          /\ rfid' = s.f
          /\ px' = t.p
          /\ gh' = t.h
    /\ UNCHANGED <<mn, obs, acc, dlv, wire, txlog, us>>

\* return (rfid->error); and, in send_cmd, the test of the answer
RxReturn ==
    /\ px.pc = "rx_loop"
    /\ px.timeout = 0
    /\ px' = [px EXCEPT !.pc = "done", !.rxret = rfid.error,
                        !.ret = IF px.via = "send_cmd"
                                THEN send_cmd_result(rfid, px) ELSE 0]
    /\ UNCHANGED <<ringVars, rfid, wire, txlog, gh, us>>

ProtoNext == SendCmd \/ RxCall \/ ProtoIsr \/ RxPoll \/ RxFallthrough \/ RxReturn

SpecProto == ProtoInit /\ [][ProtoNext]_vars

\* the main line inside rx_pkt: the statement that is due
MainLine == RxPoll \/ RxFallthrough \/ RxReturn

\* rx_pkt has been entered and has not returned; in each such state exactly one
\* of RxPoll, RxFallthrough and RxReturn can be taken, and it changes px
MainLineDue == px.pc \in {"rx_loop", "rx_ft"}

\* the processor keeps executing the main line: weak fairness of MainLine,
\* WF_vars(MainLine), with ENABLED <<MainLine>>_vars written as MainLineDue
SpecProtoFair ==
    SpecProto /\ ([]<>(~MainLineDue) \/ []<><<MainLine>>_vars)

----------------------------------------------------------------------------
(* Claims on send_cmd and rx_pkt *)

Finished == px.pc = "done"

\* C7: send_cmd returns TRUE exactly when, after the exchange, rx_pkt ended
\* in END, rfid->opcode equals the opcode held before the transmission and
\* rfid->status is 0; every other outcome returns FALSE; and it calls tx_pkt
\* once and rx_pkt once.
C7_SendCmdVerdict ==
    (Finished /\ px.via = "send_cmd")
       => /\ px.ret \in {0, 1}
          /\ (px.ret = 1) <=> (px.rxret = END /\ rfid.error = END
                                 /\ rfid.opcode = gh.sentop /\ rfid.status = 0)
          /\ gh.txn = 1
          /\ gh.rxn = 1
          /\ Len(txlog) = txlog[2] + 5

\* send_cmd has returned TRUE after a complete answer
C7_Witness ==
    /\ Finished /\ px.via = "send_cmd" /\ px.ret = 1
    /\ gh.resp.kind = "good" /\ gh.resp.len = 1 /\ wire = <<>>

\* send_cmd has returned FALSE for a complete, valid answer that echoes
\* another opcode
C7_WitnessEcho ==
    /\ Finished /\ px.via = "send_cmd" /\ px.ret = 0
    /\ rfid.error = END /\ rfid.status = 0 /\ rfid.opcode # gh.sentop

\* C8: when both CRC bytes were received (most significant first) and differ
\* from the CRC computed over the received len, opcode, status and data,
\* rx_pkt returns CRC, not END, and send_cmd returns FALSE, whatever the
\* opcode and the status.
C8_CrcMismatchFails ==
    /\ gh.crcn = 2
          => rfid.crc = gh.rcv[Len(gh.rcv) - 1] * 256 + gh.rcv[Len(gh.rcv)]
    /\ (Finished /\ gh.crcn = 2 /\ m5_crc(rfid, TRUE) # rfid.crc)
          => /\ rfid.error = CRC
             /\ px.rxret = CRC
             /\ px.via = "send_cmd" => px.ret = 0

\* send_cmd has returned after the comparison of a wrong CRC, the opcode
\* echoed and the status 0
C8_Witness ==
    /\ Finished /\ px.via = "send_cmd" /\ gh.crcn = 2
    /\ m5_crc(rfid, TRUE) # rfid.crc
    /\ rfid.opcode = gh.sentop /\ rfid.status = 0
    /\ gh.iters < gh.budget
    /\ px.ret = 0

\* the budget is charged once for every iteration, and the loop is left
\* only with the budget used up or after case CRC / END set it to 1
RxBudgetKept ==
    /\ gh.iters <= gh.budget
    /\ px.pc \in {"rx_loop", "rx_ft"}
          => \/ px.timeout = gh.budget - gh.iters
             \/ px.timeout = 0 /\ (rfid.error = END \/ (rfid.error = CRC /\ gh.crcn = 2))
    /\ Finished
          => /\ px.rxret = rfid.error
             /\ \/ gh.iters = gh.budget
                \/ rfid.error = END
                \/ rfid.error = CRC /\ gh.crcn = 2
    /\ (Finished /\ gh.budget = 0)
          => /\ px.rxret = SOH
             /\ gh.iters = 0
             /\ gh.rcv = <<>>

FedInTime ==
    /\ gh.resp.kind = "good"
    /\ wire = <<>>
    /\ ~gh.dropped
    /\ gh.left >= 9 + gh.resp.len

\* C10: a packet 0xFF, L, opcode, status, payload, CRC built with m5_crc and
\* fed to rx_pkt (every byte accepted by the ring, sufficient budget) ends in
\* END with rfid->len, opcode, status and data equal to the encoded values.
C10_RoundTrip ==
    (Finished /\ FedInTime)
       => /\ rfid.error = END
          /\ rfid.len = gh.resp.len
          /\ rfid.opcode = gh.resp.opcode
          /\ rfid.status = gh.resp.status
          /\ SubSeq(rfid.data, 1, rfid.len) = gh.resp.data

----------------------------------------------------------------------------
(* Claims on the CRC *)

\* the commands as rfid_read and rfid_resume (boot) set them up
ReadCmd == [len |-> 2, opcode |-> 33, data |-> <<3, 232>>]
BootCmd == [len |-> 0, opcode |-> 4, data |-> <<>>]

\* C11: m5_crc without the status over len 0x02, opcode 0x21, data 03 E8 is
\* 0xD509, so that the packet transmitted by rfid_read is FF 02 21 03 E8 D5 09;
\* over len 0x00, opcode 0x04 it is 0x1D0B.
C11_ReferenceCrc ==
    /\ (gh.txn = 1 /\ gh.sentop = 33)
          => /\ txlog = <<255, 2, 33, 3, 232, 213, 9>>
             /\ m5_crc([rfid EXCEPT !.len = ReadCmd.len, !.opcode = ReadCmd.opcode,
                                    !.data = ReadCmd.data], FALSE) = 54537
    /\ (gh.txn = 1 /\ gh.sentop = 4)
          => /\ txlog = <<255, 0, 4, 29, 11>>
             /\ m5_crc([rfid EXCEPT !.len = BootCmd.len, !.opcode = BootCmd.opcode,
                                    !.data = BootCmd.data], FALSE) = 7435

\* send_cmd has transmitted the read command
C11_Witness == gh.txn = 1 /\ gh.sentop = 33 /\ Len(txlog) = 7

----------------------------------------------------------------------------
(* rfid_resume: the five commands, each sent with send_cmd *)

\* A variant that sets the tag protocol before the region.
ResumeCmds_swapped ==
    <<BootCmd,
      [len |-> 2, opcode |-> 147, data |-> <<0, 5>>],
      [len |-> 1, opcode |-> 151, data |-> <<2>>],
      [len |-> 1, opcode |-> 152, data |-> <<3>>],
      [len |-> 3, opcode |-> 154, data |-> <<1, 2, 1>>]>>

\* boot firmware, set region (EU), set tag protocol (Gen2), set power mode,
\* set reader configuration
ResumeCmds ==
    <<BootCmd,
      [len |-> 1, opcode |-> 151, data |-> <<2>>],
      [len |-> 2, opcode |-> 147, data |-> <<0, 5>>],
      [len |-> 1, opcode |-> 152, data |-> <<3>>],
      [len |-> 3, opcode |-> 154, data |-> <<1, 2, 1>>]>>

LastStep == Len(ResumeCmds)

\* rfid->len = ..; rfid->opcode = ..; rfid->data[0] = ..; the other cells of
\* the data area keep what they hold
SetCmd(f, cmd) ==
    [f EXCEPT !.len = cmd.len, !.opcode = cmd.opcode,
              !.data = cmd.data \o SubSeq(f.data, Len(cmd.data) + 1, Len(f.data))]

\* what the module may answer to a command of rfid_resume: the opcode echoed
\* with status 0, 0x0101 or 0x0105, the answer with 0x0101 also with a wrong
\* CRC, or nothing
ResumeLines(step) ==
    {<<[len |-> 0, opcode |-> ResumeCmds[step].opcode, status |-> st, data |-> <<>>,
        kind |-> "good"], "good">> : st \in {0, 257, 261}}
    \cup {<<[len |-> 0, opcode |-> ResumeCmds[step].opcode, status |-> 257,
             data |-> <<>>, kind |-> "good"], "crc_lo">>,
          <<NoFrame, "none">>}

\* the next send_cmd of rfid_resume up to the entry of its rx_pkt; bytes of
\* the previous answer still on the line arrive before the new answer
ResumeSend(f, step, x) ==
    LET s == send_cmd_prepare(SetCmd(f, ResumeCmds[step]), px)
        e == rx_enter(s.f, s.p, RxBudget)
    IN /\ rfid' = e.f
       /\ px' = [e.p EXCEPT !.via = "resume", !.step = step]
       /\ txlog' = txlog \o tx_pkt(s.f)
       /\ wire' = wire \o Wire(x[1], x[2])
       /\ gh' = [GhIdle EXCEPT !.budget = RxBudget, !.txn = gh.txn + 1,
                               !.rxn = gh.rxn + 1,
                               !.sentop = ResumeCmds[step].opcode,
                               !.resp = [x[1] EXCEPT !.kind = x[2]]]

\* A variant of the test after the boot command that tolerates nothing.
resume_tolerate_never(f, step) == f

\* if (rfid->error && (rfid->status == 0x0101)) rfid->error = FALSE;
\* after the boot command only
resume_tolerate(f, step) ==
    IF step = 1 /\ f.error # 0 /\ f.status = 257 THEN [f EXCEPT !.error = 0] ELSE f

\* rfid_resume up to the rx_pkt of the boot command: malloc of the data
\* area, usart_resume (cbuffer_clear), then send_cmd
ResumeCall ==
    /\ px.pc = "idle"
    /\ cb' = usart_resume(us, cb).c
    /\ us' = usart_resume(us, cb).u
    /\ \E x \in ResumeLines(1) : ResumeSend([rfid EXCEPT !.data = <<>>], 1, x)
    /\ UNCHANGED <<mn, obs, acc, dlv>>

\* rx_pkt and send_cmd have returned, rfid->error is 0: the next command
ResumeGoOn ==
    /\ px.pc = "rx_loop" /\ px.timeout = 0 /\ px.via = "resume"
    /\ px.step < LastStep
    /\ LET f == resume_tolerate(rfid, px.step)
       IN /\ f.error = 0
          /\ \E x \in ResumeLines(px.step + 1) : ResumeSend(f, px.step + 1, x)
    /\ UNCHANGED <<ringVars, us>>

\* rx_pkt and send_cmd have returned and no command is left, or rfid->error
\* is not 0: free(rfid->data); return(rfid->error)
ResumeReturn ==
    /\ px.pc = "rx_loop" /\ px.timeout = 0 /\ px.via = "resume"
    /\ LET f == resume_tolerate(rfid, px.step)
       IN /\ (f.error # 0 \/ px.step = LastStep)
          /\ rfid' = f
          /\ px' = [px EXCEPT !.pc = "done", !.rxret = rfid.error, !.ret = f.error]
    /\ UNCHANGED <<ringVars, wire, txlog, gh, us>>

\* ISR(USART1_RX_vect) during rfid_resume: the module answers at the pace of
\* the polling, a byte arrives when the ring has been emptied
ResumeIsr == cb.len = 0 /\ ProtoIsr

ResumeNext ==
    ResumeCall \/ ResumeIsr \/ RxPoll \/ RxFallthrough \/ ResumeGoOn \/ ResumeReturn

SpecResume == ProtoInit /\ [][ResumeNext]_vars

----------------------------------------------------------------------------
(* Claims on rfid_resume *)

\* the loop of rx_pkt has been left inside a send_cmd of rfid_resume: the
\* next statements are the return of rx_pkt, the test of send_cmd and the
\* tests of rfid_resume
AfterSendCmd == px.via = "resume" /\ px.pc = "rx_loop" /\ px.timeout = 0

\* C12: when the send_cmd of the boot command (opcode 0x04) fails with
\* rfid->status 0x0101, rfid_resume goes on as after a success: it transmits
\* the set region command (opcode 0x97, FF 01 97 02 4B BF) and does not
\* return.
C12_BootStatusTolerated ==
    [][(/\ AfterSendCmd
        /\ px.step = 1
        /\ rfid.status = 257
        /\ send_cmd_result(rfid, px) = 0
        /\ px' # px)
          => /\ px'.pc = "rx_loop"
             /\ px'.step = 2
             /\ txlog' = txlog \o <<255, 1, 151, 2, 75, 191>>]_vars

\* the set region command has just been transmitted, the status 0x0101 of the
\* boot command still in rfid->status
C12_Witness ==
    /\ px.via = "resume" /\ px.step = 2 /\ gh.iters = 0
    /\ rfid.status = 257
    /\ gh.txn = 2 /\ Len(txlog) = 11

\* C13: when the answer to any command of rfid_resume has brought a status
\* that is neither 0 nor 0x0101, also in a packet that is complete and has a
\* valid CRC, rfid_resume transmits no further command and returns a value
\* that is not 0.
C13_BadStatusHalts ==
    [][(/\ AfterSendCmd
        /\ rfid.error \in {END, DATA, CRC}
        /\ rfid.status \notin {0, 257}
        /\ px' # px)
          => /\ px'.pc = "done"
             /\ px'.ret # 0
             /\ txlog' = txlog]_vars

----------------------------------------------------------------------------
(* Claims on the fields of the ring and their writers *)

\* the fields of struct cbuffer_t that both contexts use
RingFields == {"idx", "start", "len", "overflow"}

\* the operation just completed was called from the main line
MainLineOp == obs.op \in {"pop", "popm", "clear"}

\* the operation just completed has changed the field
Wrote(field) == cb[field] # obs.pre[field]

\* cbuffer_push, called from the interrupt in this state, changes the field
PushWrites(field) == \E b \in RingBytes : cbuffer_push(cb, b).c[field] # cb[field]

\* C14: every field of the ring has one writing context: cbuffer_push (the
\* interrupt) never writes start and never clears overflow; cbuffer_pop,
\* cbuffer_popm and cbuffer_clear (the main line) never write idx and never
\* set overflow; and no field among idx, start, len and overflow is written
\* from both contexts.
C14_SingleWriter ==
    /\ obs.op = "push"
          => /\ ~Wrote("start")
             /\ obs.pre.overflow => cb.overflow
    /\ MainLineOp
          => /\ ~Wrote("idx")
             /\ cb.overflow => obs.pre.overflow
    /\ \A field \in RingFields : ~(MainLineOp /\ Wrote(field) /\ PushWrites(field))

----------------------------------------------------------------------------
(* One serial line: the interrupt, usart_suspend, usart_resume and the reads. *)
(* Every call runs to completion.                                             *)

\* the characters received on the line: the end of line and another one
LineBytes == {USART_EOL, 65}

\* flags as malloc leaves them in usart_init
StaleFlags == {UsFlags(0, 0, FALSE), UsFlags(2 ^ EolBits - 2, 3, FALSE)}

\* the line running with an empty ring after 2 ^ EolBits - 2 end of line
\* characters were received and taken with usart_get
ManyEols == UsFlags(2 ^ EolBits - 2, 0, TRUE)

\* the end of line characters that the line delivers are counted up to
\* MaxEol from 0 and up to the end of the counter's range from ManyEols
EolWindow == (0 .. MaxEol - 1) \cup (ManyEols.eol .. 2 ^ EolBits - 1)

\* usart_init: the ring allocated and cleared (its storage holding what
\* malloc left there, here the character 65), the port not started
LineInit ==
    /\ cb = cbuffer_init([s \in Slots |-> 65])
    /\ us \in StaleFlags \cup {ManyEols}
    /\ mn = IdleFrame
    /\ obs = [NoObs EXCEPT !.pre = cb]
    /\ acc = <<>>
    /\ dlv = <<>>
    /\ ProtoIdle

\* obs.phase: "suspended" after usart_suspend, "resumed" after the
\* usart_resume that follows it and until a byte is received, else "off";
\* obs.pre: the ring before usart_suspend, not recorded for the other calls
LineSuspend ==
    /\ cb' = usart_suspend(us, cb).c
    /\ us' = usart_suspend(us, cb).u
    /\ mn' = IdleFrame
    /\ obs' = [op |-> "suspend", ret |-> 0, pre |-> cb, run |-> <<>>,
               phase |-> "suspended"]
    /\ UNCHANGED <<acc, dlv, protoVars>>

LineResume ==
    /\ cb' = usart_resume(us, cb).c
    /\ us' = usart_resume(us, cb).u
    /\ mn' = IdleFrame
    /\ obs' = [op |-> "resume", ret |-> 0, pre |-> NoObs.pre, run |-> <<>>,
               phase |-> IF obs.phase = "suspended" THEN "resumed" ELSE "off"]
    /\ UNCHANGED <<acc, dlv, protoVars>>

\* ISR(USARTn_RX_vect), which runs only with the receiver enabled
LineIsr ==
    /\ us.on
    /\ \E rxc \in LineBytes :
          LET r == usart_isr(us, cb, rxc)
          IN /\ rxc = USART_EOL => us.eol \in EolWindow
             /\ cb' = r.c
             /\ us' = r.u
             /\ obs' = [op |-> "push", ret |-> IF r.ret THEN 1 ELSE 0, pre |-> NoObs.pre,
                        run |-> <<>>, phase |-> "off"]
    /\ mn' = IdleFrame
    /\ UNCHANGED <<acc, dlv, protoVars>>

LineGet ==
    /\ \E size \in 0 .. MaxSize :
          LET r == usart_get(cb, size)
          IN /\ cb' = r.c
             /\ mn' = r.m
             /\ obs' = [op |-> "get", ret |-> r.m.j, pre |-> NoObs.pre, run |-> <<>>,
                        phase |-> IF obs.phase = "resumed" THEN "resumed" ELSE "off"]
    /\ UNCHANGED <<us, acc, dlv, protoVars>>

LineGetmsg ==
    /\ \E size \in 0 .. MaxSize :
          LET r == usart_getmsg(us, cb, size)
          IN /\ cb' = r.c
             /\ us' = r.u
             /\ mn' = r.m
             /\ obs' = [op |-> "getmsg", ret |-> r.m.j, pre |-> NoObs.pre, run |-> <<>>,
                        phase |-> IF obs.phase = "resumed" THEN "resumed" ELSE "off"]
    /\ UNCHANGED <<acc, dlv, protoVars>>

LineClear ==
    /\ cb' = usart_clear_rx_buffer(us, cb).c
    /\ us' = usart_clear_rx_buffer(us, cb).u
    /\ mn' = IdleFrame
    /\ obs' = [op |-> "clear", ret |-> 0, pre |-> NoObs.pre, run |-> <<>>, phase |-> "off"]
    /\ UNCHANGED <<acc, dlv, protoVars>>

LineNext ==
    LineSuspend \/ LineResume \/ LineIsr \/ LineGet \/ LineGetmsg \/ LineClear

SpecLine == LineInit /\ [][LineNext]_vars

\* C15: after usart_suspend then usart_resume, whatever the ring held (a
\* full ring with overflow set included), the ring is empty (len 0, idx =
\* start, overflow FALSE), flags.eol is 0, and usart_get and usart_getmsg
\* return 0 and write nothing until a byte is received; usart_suspend alone
\* leaves the ring as it was.
C15_SuspendResume ==
    /\ obs.phase = "resumed"
          => /\ cb.len = 0 /\ cb.idx = cb.start /\ ~cb.overflow
             /\ us.eol = 0
             /\ obs.op \in {"get", "getmsg"} => (obs.ret = 0 /\ Output(mn) = <<>>)
    /\ obs.op = "suspend" => cb = obs.pre

\* usart_get or usart_getmsg has been called after a usart_resume that
\* followed a usart_suspend
C15_Witness ==
    /\ obs.phase = "resumed"
    /\ obs.op \in {"get", "getmsg"}
    /\ mn.size > 0

\* usart_suspend has been called on a full ring, overflow set, end of line
\* characters counted
C15_WitnessFull ==
    /\ obs.op = "suspend"
    /\ cb.overflow /\ cb.len = CBUF_SIZE
    /\ us.eol > 0

----------------------------------------------------------------------------
(* Claims on the ring: its invariant and what the pops remove *)

\* C16: after any sequence of complete cbuffer_clear, cbuffer_push,
\* cbuffer_pop and cbuffer_popm calls, with any size: idx and start are in
\* 0 .. CBUF_SIZE - 1; with overflow FALSE, len = (idx - start) mod CBUF_SIZE;
\* with overflow TRUE, idx = start and len = CBUF_SIZE; len is never above
\* CBUF_SIZE and never wraps below 0.
C16_RingInvariant ==
    /\ cb.idx \in 0 .. CBUF_SIZE - 1
    /\ cb.start \in 0 .. CBUF_SIZE - 1
    /\ ~cb.overflow => cb.len = (cb.idx - cb.start + CBUF_SIZE) % CBUF_SIZE
    /\ cb.overflow => (cb.idx = cb.start /\ cb.len = CBUF_SIZE)
    /\ cb.len \in 0 .. CBUF_SIZE

\* a pop with size 0 has been made on a full ring with overflow set
C16_Witness ==
    /\ obs.op \in {"pop", "popm"}
    /\ obs.pre.overflow
    /\ mn.size = 0
    /\ cb.len = CBUF_SIZE - 1

\* bytes accepted by cbuffer_push and not yet handed to a caller
Pending == Len(acc) - Len(dlv)

\* C17: whatever statements of cbuffer_pop the interrupt runs between (the
\* end of the while loop and overflow = FALSE included), the overflow latch
\* is not lost: when no pop is in progress and the ring holds CBUF_SIZE
\* unread bytes (idx = start), overflow is set, so that a push is refused
\* and never overwrites an unread byte.
C17_LatchNeverLost ==
    mn.pc = "ret"
       => /\ (cb.idx = cb.start /\ Pending >= CBUF_SIZE) => cb.overflow
          /\ Pending <= CBUF_SIZE

\* length of the message at the head of the ring: up to and including the
\* first eom, the whole backlog when there is none
MsgLen(c, eom) ==
    IF Positions(Unread(c), eom) = {} THEN Backlog(c)
    ELSE Min(Positions(Unread(c), eom))

\* C18: cbuffer_popm stops removing bytes once size bytes have been written,
\* as cbuffer_pop does: when the message at the head of the ring is longer
\* than size, the bytes that were not copied stay in the ring and the next
\* read returns them, in order.
C18_PopmKeepsExcess ==
    (obs.op = "popm" /\ mn.size < MsgLen(obs.pre, mn.eom))
       => /\ obs.ret = mn.size
          /\ Unread(obs.pre) = Output(mn) \o Unread(cb)

\* C19: cbuffer_pop removes exactly the bytes it copies, for every state of
\* the ring (overflow set included) and every size (0 and sizes below the
\* backlog included): the value returned is the number of bytes written, len
\* decreases by it, start advances by it, and the rest of the backlog stays
\* in the ring, in order, for the next pop.
C19_PopRemovesWhatItCopies ==
    obs.op = "pop"
       => /\ obs.ret = mn.j
          /\ RestUntouched(mn)
          /\ cb.len = obs.pre.len - obs.ret
          /\ cb.start = (obs.pre.start + obs.ret) % CBUF_SIZE
          /\ Unread(obs.pre) = Output(mn) \o Unread(cb)

----------------------------------------------------------------------------
(* Claims on the header stage of rx_pkt *)

\* a byte that is no header has been obtained in case SOH of this call
HeaderMissed == gh.rcv # <<>> /\ gh.rcv[1] # 255

\* C20: in case SOH rx_pkt goes on to LEN only on the byte 0xFF; and once
\* another byte has been obtained in case SOH, the stage stays SOH whatever
\* arrives afterwards (a later 0xFF included), until the budget is used up
\* and rx_pkt returns SOH.
C20_HeaderOnlyFirstByte ==
    /\ [][(rfid.error = SOH /\ rfid'.error # SOH)
             => (rfid'.error = LEN /\ rfid'.soh = 255)]_vars
    /\ [](HeaderMissed
             => /\ rfid.error = SOH
                /\ Finished => (px.rxret = SOH /\ gh.iters = gh.budget))

----------------------------------------------------------------------------
(* Claims on the stages of rx_pkt *)

\* a step of the loop of rx_pkt, inside one call
InRxPkt == px.pc \in {"rx_loop", "rx_ft"} /\ px.timeout # 0

\* the stage that follows a stage in the order SOH, LEN, CMD, STATUS, DATA,
\* CRC, END
StageAfter(e) == IF e = CRC THEN END ELSE e + 1

\* the bytes obtained in this call from the header (the first 0xFF) on, the
\* header included
FromHeader(h) ==
    IF Positions(h.rcv, 255) = {} THEN 0
    ELSE Len(h.rcv) - Min(Positions(h.rcv, 255)) + 1

\* the bytes of a packet that belong to the stages up to and including e
BytesUpTo(e, len) ==
    CASE e = SOH    -> 1
      [] e = LEN    -> 2
      [] e = CMD    -> 3
      [] e = STATUS -> 5
      [] e = DATA   -> 5 + len
      [] OTHER      -> 7 + len

\* C21: within one call of rx_pkt the stage only moves to the next one of
\* SOH, LEN, CMD, STATUS, DATA, CRC, END; each successful usart_get takes
\* exactly one byte; a stage is left only after its own bytes were taken
\* (1 header, 1 length, 1 opcode, exactly 2 of status, exactly len of data,
\* exactly 2 of CRC); and a step of the loop that obtains no byte leaves the
\* stage and the fields of the struct unchanged.
C21_StagesInOrder ==
    /\ [][(InRxPkt /\ rfid'.error # rfid.error)
             => /\ rfid'.error = StageAfter(rfid.error)
                /\ FromHeader(gh') = BytesUpTo(rfid.error, rfid'.len)]_vars
    /\ [][InRxPkt => Len(gh'.rcv) \in {Len(gh.rcv), Len(gh.rcv) + 1}]_vars
    /\ [][(InRxPkt /\ gh'.rcv = gh.rcv) => rfid' = rfid]_vars

\* C22: however the arrivals interleave with an iteration of rx_pkt, a byte
\* is stored into rfid->status only in stage STATUS: an iteration that
\* starts in stage CMD and finds no opcode takes no byte and leaves
\* rfid->status and the counter i unchanged, so that the third byte of the
\* packet on the line is the one stored as opcode.
C22_StatusOnlyInStatus ==
    /\ [][(InRxPkt /\ rfid'.status # rfid.status) => rfid.error = STATUS]_vars
    /\ [][(px.pc = "rx_ft" /\ rfid.error = CMD)
             => /\ gh'.rcv = gh.rcv
                /\ rfid'.status = rfid.status
                /\ px'.i = px.i]_vars
    /\ []((px.pc \in {"rx_loop", "rx_ft", "done"}
           /\ rfid.error \in {STATUS, DATA, CRC, END}
           /\ gh.resp.kind = "good" /\ ~gh.dropped)
             => rfid.opcode = gh.resp.opcode)

----------------------------------------------------------------------------
(* Claims on the counter of end of line characters *)

\* the counter after one more end of line character, were it to stop at its
\* largest value
EolSaturated(eol) == IF eol < 2 ^ EolBits - 1 THEN eol + 1 ELSE eol

\* C23: for each end of line character received, the interrupt routine adds
\* one to flags.eol while it is below 63 and leaves it at 63 when it is 63:
\* flags.eol never wraps to 0 and never exceeds 63, however many end of line
\* characters arrive without a usart_getmsg in between.
C23_EolSaturates ==
    /\ [][obs'.op = "push"
             => /\ us'.eol \in {us.eol, EolSaturated(us.eol)}
                /\ obs'.ret = 1
                      => us'.eol = IF cb'.buffer[cb.idx] = USART_EOL
                                   THEN EolSaturated(us.eol) ELSE us.eol]_vars
    /\ [](us.eol \in 0 .. 2 ^ EolBits - 1)

----------------------------------------------------------------------------
(* Claims on the order of the commands of rfid_resume *)

\* the packets of rfid_resume as its comments give them: ff00041d0b,
\* ff0197024bbf, ff02930005517d, ff01980344be, ff039a010201ad5c
ResumeFrames ==
    <<<<255, 0, 4, 29, 11>>,
      <<255, 1, 151, 2, 75, 191>>,
      <<255, 2, 147, 0, 5, 81, 125>>,
      <<255, 1, 152, 3, 68, 190>>,
      <<255, 3, 154, 1, 2, 1, 173, 92>>>>

\* the first n of them, one after the other
RECURSIVE FramesUpTo(_)
FramesUpTo(n) == IF n = 0 THEN <<>> ELSE FramesUpTo(n - 1) \o ResumeFrames[n]

\* C24: rfid_resume transmits its commands only in the order boot (0x04),
\* set region (0x97), set tag protocol (0x93), set power mode (0x98), set
\* reader configuration (0x9a), each at most once; after a command whose
\* rx_pkt ended in a stage other than END (the tolerated boot case apart) no
\* further command is transmitted and rfid_resume returns that stage; and it
\* returns 0 only if the rx_pkt of the last command it sent reached END.
C24_ResumeOrder ==
    /\ [](px.via = "resume"
             => /\ px.step \in 1 .. LastStep
                /\ gh.txn = px.step
                /\ txlog = FramesUpTo(px.step))
    /\ [][(/\ AfterSendCmd
           /\ rfid.error # END
           /\ ~(px.step = 1 /\ rfid.status = 257)
           /\ px' # px)
             => /\ px'.pc = "done"
                /\ px'.ret = rfid.error
                /\ txlog' = txlog]_vars
    /\ []((Finished /\ px.via = "resume" /\ px.ret = 0)
             => (px.rxret = END /\ px.step = LastStep))

\* rfid_resume has returned the stage where the answer to its third command
\* stopped, after the boot case was tolerated
C24_Witness ==
    /\ Finished /\ px.via = "resume"
    /\ px.step = 3 /\ px.ret # 0 /\ px.ret = px.rxret
    /\ gh.txn = 3

\* rfid_resume has returned 0 after its five commands
C24_WitnessAll ==
    /\ Finished /\ px.via = "resume" /\ px.ret = 0 /\ gh.txn = LastStep

\* C25: rfid_resume goes past the boot command only when a complete answer
\* with a valid CRC was received: an exchange that timed out, stopped in an
\* earlier stage or failed the CRC is never turned into a success by a value
\* 0x0101 that rfid->status holds from a partly received packet, a packet with
\* a wrong CRC or an earlier exchange.
C25_TrustworthyBoot ==
    [][(AfterSendCmd /\ px.step = 1 /\ px'.step = 2)
          => /\ rfid.error = END
             /\ gh.crcn = 2
             /\ m5_crc(rfid, TRUE) = rfid.crc]_vars

----------------------------------------------------------------------------
(* Claims on the packet send_cmd transmits *)

\* the CRC over the length, the opcode and the data bytes of a command, and
\* nothing else
CmdCrc(cmd) ==
    CrcData(CRC_calcCrc8(CRC_calcCrc8(65535, cmd.len), cmd.opcode),
            [len |-> cmd.len, data |-> cmd.data], 0)

\* the len + 5 bytes of the packet of a command: 0xFF, len, opcode, the data
\* bytes, the CRC, more significant byte first
CmdPacket(cmd) ==
    <<255, cmd.len, cmd.opcode>> \o cmd.data
        \o <<CmdCrc(cmd) \div 256, CmdCrc(cmd) % 256>>

\* C26: for every opcode, len and data, send_cmd transmits exactly len + 5
\* bytes in the order 0xFF, len, opcode, the len data bytes, CRC high, CRC
\* low, the CRC being computed over len, opcode and data only, whatever
\* rfid->status holds; and the whole packet is transmitted before the first
\* iteration of rx_pkt.
C26_PacketSent ==
    /\ px.via = "send_cmd" => (Len(txlog) = txlog[2] + 5 /\ txlog[3] = gh.sentop)
    /\ (px.via = "send_cmd" /\ gh.iters = 0)
          => \E cmd \in Commands :
                /\ cmd.opcode = gh.sentop
                /\ Len(cmd.data) = cmd.len
                /\ txlog = CmdPacket(cmd)

\* send_cmd has transmitted the read command with rfid->status holding
\* 0x0101, and rx_pkt has not yet run an iteration
C26_Witness ==
    /\ px.via = "send_cmd" /\ px.pc = "rx_loop"
    /\ gh.iters = 0 /\ gh.rcv = <<>>
    /\ rfid.status = 257
    /\ gh.sentop = 33 /\ Len(txlog) = 7

----------------------------------------------------------------------------
(* The longest packets: rfid->len = 255, the size of the data area *)

\* rfid->data = malloc(0xff)
DataSize == 255

\* a command and an answer that fill the data area
LongCmd == [len |-> DataSize, opcode |-> 33, data |-> [k \in 1 .. DataSize |-> k]]

LongAnswer ==
    [len |-> DataSize, opcode |-> 33, status |-> 0,
     data |-> [k \in 1 .. DataSize |-> DataSize - k], kind |-> "good"]

\* the caller fills len, opcode and the data area, then send_cmd(): prepare,
\* tx_pkt(), rx_pkt entered
LongSend ==
    /\ px.pc = "idle"
    /\ LET f0 == [rfid EXCEPT !.len = LongCmd.len, !.opcode = LongCmd.opcode,
                              !.data = LongCmd.data]
           s == send_cmd_prepare(f0, px)
           e == rx_enter(s.f, s.p, LongBudget)
       IN /\ rfid' = e.f
          /\ px' = [e.p EXCEPT !.via = "send_cmd"]
          /\ txlog' = txlog \o tx_pkt(s.f)
          /\ wire' = Wire(LongAnswer, "good")
          /\ gh' = [GhIdle EXCEPT !.budget = LongBudget, !.txn = gh.txn + 1,
                                  !.rxn = gh.rxn + 1, !.sentop = LongCmd.opcode,
                                  !.resp = LongAnswer]
    /\ UNCHANGED <<ringVars, us>>

\* the module sends its answer without a pause: while bytes are due, the
\* main line finds the ring empty in at most MaxIdle iterations of an rx_pkt
\* (those of the else branches of STATUS, DATA and CRC, which take no byte,
\* included)
LineFed == wire = <<>> \/ cb.len # 0 \/ gh.iters - Len(gh.rcv) < MaxIdle

LongPoll == LineFed /\ RxPoll

LongFallthrough == LineFed /\ RxFallthrough

\* the bytes of the answer arrive at the pace of the polling (ResumeIsr)
LongNext == LongSend \/ ResumeIsr \/ LongPoll \/ LongFallthrough \/ RxReturn

\* rfid_init, the status word holding 0
LongInit == ProtoInit /\ rfid.status = 0

SpecLong == LongInit /\ [][LongNext]_vars

\* C27: for every length byte received (255 included) and every arrival
\* pattern, rx_pkt, m5_crc and tx_pkt access rfid->data only at the indices
\* 0 .. len - 1 <= 254, inside the 255 bytes allocated for the exchange, and
\* their loops over the data bytes end although the index has 8 bits.
C27_DataInBounds ==
    /\ [](/\ Len(rfid.data) <= DataSize
          /\ rfid.len <= DataSize
          /\ (px.pc \in {"rx_loop", "rx_ft"} /\ rfid.error = DATA) => px.i <= rfid.len)
    /\ [][(InRxPkt /\ rfid.error = DATA /\ gh'.rcv # gh.rcv)
             => /\ px.i < rfid.len
                /\ px.i <= DataSize - 1
                /\ px'.i = px.i + 1
                /\ rfid'.data[px.i + 1] = gh'.rcv[Len(gh'.rcv)]
                /\ Len(rfid'.data) = Len(rfid.data)]_vars
    /\ []((px.via = "send_cmd" /\ gh.iters = 0)
             => /\ Len(txlog) = LongCmd.len + 5
                /\ SubSeq(txlog, 4, LongCmd.len + 3) = LongCmd.data
                /\ rfid.crc = CmdCrc(LongCmd))
    /\ []((Finished /\ rfid.error = END) => m5_crc(rfid, TRUE) = rfid.crc)

\* rx_pkt has ended in END after storing the 255 data bytes of the answer
C27_Witness ==
    /\ Finished /\ rfid.error = END
    /\ rfid.len = DataSize
    /\ rfid.data = LongAnswer.data
    /\ Len(txlog) = DataSize + 5

============================================================================
